---- MODULE Spec2Model ----
(***************************************************************************)
(* State-machine model of the automation job orchestration engine:         *)
(*   src/keepers/automation_orchestrator.py  (AutomationOrchestrator)      *)
(*   src/keepers/chainlink/keeper_manager.py (ChainlinkKeeperManager)      *)
(*   src/keepers/gelato/gelato_manager.py    (GelatoManager)               *)
(*                                                                         *)
(* Scores are Python floats in the source (cost / 1000).  They are kept    *)
(* here as exact integers in thousandths (score * 1000): every score the   *)
(* source computes is a multiple of 0.005, and two scores that are equal   *)
(* as rationals are computed from exactly representable operands, so the   *)
(* float comparison and the integer comparison agree.                      *)
(***************************************************************************)
EXTENDS Integers, Sequences, FiniteSets, TLC

VARIABLES
    chainlink_manager,   \* TRUE iff self.chainlink_manager is not None
    gelato_manager,      \* TRUE iff self.gelato_manager is not None
    jobs,                \* AutomationOrchestrator.jobs: name -> AutomationJob
    job_assignments,     \* AutomationOrchestrator.job_assignments: name -> provider
    metrics,             \* AutomationOrchestrator.metrics: name -> ExecutionMetrics
    keeper_jobs,         \* ChainlinkKeeperManager.jobs: name -> KeeperJob
    gelato_tasks,        \* GelatoManager.tasks: name -> GelatoTask
    gelato_executions,   \* GelatoManager.executions: list of TaskExecution
    relay_history,       \* the relay's status endpoint: the execution history of
                         \* each task id the adapter still refers to
    tasks_created,       \* number of relay tasks created so far (task ids are fresh)
    performed_upkeeps,   \* history of the keeper's executions, kept by the actions
                         \* named `recorded`: for each job name, the times at which a
                         \* performUpkeep transaction of the adapter was confirmed
    monitoring_tasks,    \* monitor_all_jobs' monitoring_tasks: where each loop it
                         \* started stands
    now                  \* datetime.now(), in seconds

vars == <<chainlink_manager, gelato_manager, jobs, job_assignments, metrics,
          keeper_jobs, gelato_tasks, gelato_executions, relay_history, tasks_created,
          performed_upkeeps, monitoring_tasks, now>>

----------------------------------------------------------------------------
(* Bounds of the model *)

\* number of clock ticks the model lets pass
MaxTime == 1
\* seconds that pass in one clock tick
TickSeconds == 1800
\* number of relay tasks ever created (fresh task ids)
MaxTasks == 2
\* number of executions the relay performs for one task
MaxHistory == 2
\* largest total_executions a metrics collection is followed up to
MaxCount == 3

----------------------------------------------------------------------------
(* AutomationProvider, AutomationJob, ExecutionMetrics *)

CHAINLINK == "chainlink"
GELATO == "gelato"
AUTO == "auto"

AutomationProvider == {CHAINLINK, GELATO, AUTO}

\* None of an Optional[datetime] or Optional[str] field whose values are numbers here
None == -1

\* no provider: the ValueError of _select_best_provider, or a call that names none
NoProvider == "none"

Names == {"harvest"}

\* provider_costs[CHAINLINK], provider_costs[GELATO]
provider_costs == [p \in {CHAINLINK, GELATO} |-> IF p = CHAINLINK THEN 20 ELSE 25]

\* ExecutionMetrics(): all counters zero, no last execution
ExecutionMetrics ==
    [total_executions |-> 0, successful_executions |-> 0, failed_executions |-> 0,
     total_gas_used |-> 0, total_fees_paid |-> 0, last_execution_time |-> None]

\* AutomationJob(...) as the caller constructs it: active, never deployed
AutomationJob(name, gas_limit, frequency, priority, provider) ==
    [name |-> name, gas_limit |-> gas_limit, frequency |-> frequency,
     priority |-> priority, provider |-> provider, active |-> TRUE,
     created_at |-> None]

Max(a, b) == IF a >= b THEN a ELSE b

\* d[k] = v, as a Python dict assignment (insert or overwrite)
DictSet(d, k, v) == [x \in DOMAIN d \cup {k} |-> IF x = k THEN v ELSE d[x]]

\* del d[k]
DictDel(d, k) == [x \in DOMAIN d \ {k} |-> d[x]]

EmptyDict == [x \in {} |-> None]

----------------------------------------------------------------------------
(* AutomationOrchestrator._select_best_provider *)

\* a feature bonus given only to jobs strictly less frequent than hourly
chainlink_score_strict(job) ==
    Max(0, 100000 - provider_costs[CHAINLINK] * job.gas_limit)
    + 90000
    + (IF job.frequency > 3600 THEN 20000 ELSE 0)

\* chainlink_score, in thousandths
chainlink_score(job) ==
    Max(0, 100000 - provider_costs[CHAINLINK] * job.gas_limit)
    + 90000
    + (IF job.frequency >= 3600 THEN 20000 ELSE 0)

\* gelato_score, in thousandths
gelato_score(job) ==
    Max(0, 100000 - provider_costs[GELATO] * job.gas_limit)
    + 85000
    + (IF job.frequency < 3600 THEN 25000 ELSE 0)
    + (IF job.priority >= 2 THEN 15000 ELSE 0)

\* the keys of `scores`, in insertion order
scored_providers(chainlink, gelato) ==
    (IF chainlink THEN <<CHAINLINK>> ELSE <<>>) \o (IF gelato THEN <<GELATO>> ELSE <<>>)

score_of(p, job) == IF p = CHAINLINK THEN chainlink_score(job) ELSE gelato_score(job)

\* a max() that keeps the last of several equal maxima
RECURSIVE first_max_keeps_last(_, _, _)
first_max_keeps_last(keys, job, best) ==
    IF keys = <<>> THEN best
    ELSE first_max_keeps_last(Tail(keys), job,
                   IF score_of(Head(keys), job) >= score_of(best, job)
                   THEN Head(keys) ELSE best)

\* max(scores.keys(), key=...): the first key, in insertion order, whose score
\* no other key's score exceeds
RECURSIVE first_max(_, _, _)
first_max(keys, job, best) ==
    IF keys = <<>> THEN best
    ELSE first_max(Tail(keys), job,
                   IF score_of(Head(keys), job) > score_of(best, job)
                   THEN Head(keys) ELSE best)

\* a selection that falls back to the keeper when nothing was scored
select_best_provider_fallback(job, chainlink, gelato) ==
    LET keys == scored_providers(chainlink, gelato) IN
    IF keys = <<>> THEN CHAINLINK
    ELSE first_max(Tail(keys), job, Head(keys))

\* _select_best_provider(job); NoProvider stands for the ValueError of line 164
select_best_provider(job, chainlink, gelato) ==
    LET keys == scored_providers(chainlink, gelato) IN
    IF keys = <<>> THEN NoProvider
    ELSE first_max(Tail(keys), job, Head(keys))

----------------------------------------------------------------------------
(* AutomationOrchestrator.add_job *)

\* the provider add_job resolves for the job (lines 110-111)
resolved_provider(job) ==
    IF job.provider = AUTO
    THEN select_best_provider(job, chainlink_manager, gelato_manager)
    ELSE job.provider

\* what add_job(job) gives its caller: "ok", or the exception it raises
add_job_outcome(job) ==
    IF resolved_provider(job) = NoProvider
    THEN "ValueError: No automation providers available"
    ELSE "ok"

add_job(job) ==
    \* line 107: the metrics entry is (re)initialised before anything else
    /\ metrics' = DictSet(metrics, job.name, ExecutionMetrics)
    /\ IF add_job_outcome(job) = "ok"
       THEN /\ jobs' = DictSet(jobs, job.name,
                               [job EXCEPT !.provider = resolved_provider(job)])
            /\ job_assignments' = DictSet(job_assignments, job.name,
                                          resolved_provider(job))
       ELSE \* line 164 raises out of add_job
            UNCHANGED <<jobs, job_assignments>>
    /\ UNCHANGED <<chainlink_manager, gelato_manager, keeper_jobs, gelato_tasks,
                   gelato_executions, relay_history, tasks_created,
                   performed_upkeeps, monitoring_tasks, now>>

----------------------------------------------------------------------------
(* AutomationOrchestrator.monitor_all_jobs and the loops it starts *)

\* a loop stands at "running" (in its cycle or in the sleep that ends it), at
\* "except" (in the sleep of its except branch, the error logged), at "exited"
\* (an exception left the while loop) or at "cancelled"

\* the loops monitor_all_jobs creates a task for: one per initialised adapter,
\* and the metrics collection
started_loops ==
    (IF chainlink_manager THEN {"monitor_jobs"} ELSE {})
    \cup (IF gelato_manager THEN {"monitor_tasks"} ELSE {})
    \cup {"collect_metrics"}

\* the loops, and monitor_all_jobs itself waiting in gather
started_tasks == [t \in started_loops \cup {"monitor_all_jobs"} |-> "running"]

\* the loop is in its cycle: it may poll
loop_running(t) == t \in DOMAIN monitoring_tasks /\ monitoring_tasks[t] = "running"

\* a loop whose try block lets the exception of a poll through
loop_after_exception_exits == "exited"

\* where a loop stands after a poll of its cycle raised: `except Exception` logs
\* the error and sleeps, inside the while loop
loop_after_exception == "except"

\* a loop whose `except Exception` also catches the cancellation
loop_after_cancel_caught == "except"

\* where a loop stands after the cancellation reached it: CancelledError is not
\* an Exception, no except branch of the loop catches it
loop_after_cancel == "cancelled"

\* what monitor_all_jobs has given its caller so far
monitor_all_jobs_outcome ==
    IF DOMAIN monitoring_tasks = {} THEN "not called"
    ELSE IF monitoring_tasks["monitor_all_jobs"] = "cancelled"
    THEN "CancelledError"
    ELSE IF \E t \in DOMAIN monitoring_tasks : monitoring_tasks[t] = "exited"
    THEN "returned, error logged"
    ELSE "pending"

\* monitor_all_jobs is called: the loops start
monitor_all_jobs ==
    /\ DOMAIN monitoring_tasks = {}
    /\ monitoring_tasks' = started_tasks
    /\ UNCHANGED <<chainlink_manager, gelato_manager, jobs, job_assignments, metrics,
                   keeper_jobs, gelato_tasks, gelato_executions, relay_history,
                   tasks_created, performed_upkeeps, now>>

\* the sleep of a loop's except branch is over: the while loop starts a new cycle
sleep_over(t) ==
    /\ t \in DOMAIN monitoring_tasks
    /\ monitoring_tasks[t] = "except"
    /\ monitoring_tasks' = [monitoring_tasks EXCEPT ![t] = "running"]
    /\ UNCHANGED <<chainlink_manager, gelato_manager, jobs, job_assignments, metrics,
                   keeper_jobs, gelato_tasks, gelato_executions, relay_history,
                   tasks_created, performed_upkeeps, now>>

\* the task running monitor_all_jobs is cancelled: gather cancels the loops, each
\* at the await it stands at
cancel_monitoring ==
    /\ DOMAIN monitoring_tasks # {}
    /\ monitoring_tasks["monitor_all_jobs"] = "running"
    /\ monitoring_tasks' =
          [t \in DOMAIN monitoring_tasks |->
              IF t = "monitor_all_jobs" THEN "cancelled"
              ELSE IF monitoring_tasks[t] \in {"running", "except"}
              THEN loop_after_cancel
              ELSE monitoring_tasks[t]]
    /\ UNCHANGED <<chainlink_manager, gelato_manager, jobs, job_assignments, metrics,
                   keeper_jobs, gelato_tasks, gelato_executions, relay_history,
                   tasks_created, performed_upkeeps, now>>

----------------------------------------------------------------------------
(* ChainlinkKeeperManager *)

\* KeeperJob(...) as _deploy_chainlink_job constructs it
KeeperJob(job) ==
    [frequency |-> job.frequency, last_execution |-> None, active |-> TRUE]

\* funding_amount, the default of register_upkeep, in LINK (5 * 10**18 juels)
funding_amount == 5

\* register_upkeep without the wait for the approval's receipt
register_steps_no_wait ==
    <<"build approve", "send approve", "build registerUpkeep",
      "send registerUpkeep", "wait registerUpkeep", "wait approve">>

\* the statements of register_upkeep after the balance check, in program order:
\* each build reads gas_price and the nonce, each send submits the signed
\* transaction, each wait is wait_for_transaction_receipt
register_steps ==
    <<"build approve", "send approve", "wait approve", "build registerUpkeep",
      "send registerUpkeep", "wait registerUpkeep">>

\* what a statement that returned has done on the chain
step_event(step) ==
    IF step = "send approve" THEN <<"approve submitted">>
    ELSE IF step = "wait approve" THEN <<"approve confirmed">>
    ELSE IF step = "send registerUpkeep" THEN <<"registerUpkeep submitted">>
    ELSE IF step = "wait registerUpkeep" THEN <<"registerUpkeep confirmed">>
    ELSE <<>>

\* the statements run one after the other; the one named fail_at raises, which
\* the except branch logs and re-raises (lines 210-212)
RECURSIVE run_register_steps(_, _, _)
run_register_steps(steps, fail_at, events) ==
    IF steps = <<>> THEN [outcome |-> "ok", events |-> events]
    ELSE IF Head(steps) = fail_at THEN [outcome |-> "RpcError", events |-> events]
    ELSE run_register_steps(Tail(steps), fail_at, events \o step_event(Head(steps)))

\* register_upkeep with a LINK balance of `balance`, where the RPC call of the
\* statement fail_at raises ("none": no call raises): how it ends and what it
\* has done on the chain
register_upkeep(balance, fail_at) ==
    IF fail_at = "balanceOf" THEN [outcome |-> "RpcError", events |-> <<>>]
    ELSE IF balance < funding_amount
    THEN [outcome |-> "ValueError: Insufficient LINK balance", events |-> <<>>]
    ELSE run_register_steps(register_steps, fail_at, <<>>)

\* how register_upkeep can end: it returns an id, or raises before any
\* transaction (balance check) or from one of its RPC calls
RegisterOutcomes == {"ok", "ValueError: Insufficient LINK balance", "RpcError"}

\* ChainlinkKeeperManager.add_job
keeper_add_job(name, keeper_job) == DictSet(keeper_jobs, name, keeper_job)

\* ChainlinkKeeperManager.remove_job
remove_job(name) ==
    IF name \in DOMAIN keeper_jobs THEN DictDel(keeper_jobs, name) ELSE keeper_jobs

\* how checkUpkeep can answer
TriggerOutcomes == {"needed", "not needed", "raises"}

\* _evaluate_trigger_condition: a raising call is answered as False (line 308)
evaluate_trigger_condition(check) == check = "needed"

\* a _should_execute_job without the frequency check
should_execute_job_any_time(kjob, check) == evaluate_trigger_condition(check)

\* _should_execute_job: the frequency check, then the trigger condition
should_execute_job(kjob, check) ==
    IF kjob.last_execution # None /\ now - kjob.last_execution < kjob.frequency
    THEN FALSE
    ELSE evaluate_trigger_condition(check)

\* _execute_job: last_execution is stamped only when the transaction went through
execute_job(kjob, tx_ok) ==
    IF tx_ok THEN [kjob EXCEPT !.last_execution = now] ELSE kjob

\* the confirmed performUpkeep transactions of the job `name`
upkeeps_of(name) ==
    IF name \in DOMAIN performed_upkeeps THEN performed_upkeeps[name] ELSE {}

\* one iteration of monitor_jobs' for loop, for the job `name`: what it does to
\* the program's state
monitor_jobs_iteration(name, check, tx_ok) ==
    /\ chainlink_manager
    /\ loop_running("monitor_jobs")
    /\ name \in DOMAIN keeper_jobs
    /\ keeper_jobs[name].active
    \* a transaction has an outcome only when one is sent
    /\ ~should_execute_job(keeper_jobs[name], check) => tx_ok
    /\ keeper_jobs' =
          IF should_execute_job(keeper_jobs[name], check)
          THEN [keeper_jobs EXCEPT ![name] = execute_job(@, tx_ok)]
          ELSE keeper_jobs
    /\ UNCHANGED <<chainlink_manager, gelato_manager, jobs, job_assignments, metrics,
                   gelato_tasks, gelato_executions, relay_history, tasks_created,
                   monitoring_tasks, now>>

\* the iteration, its executions left out of the history
monitor_jobs(name, check, tx_ok) ==
    /\ monitor_jobs_iteration(name, check, tx_ok)
    /\ UNCHANGED performed_upkeeps

\* the iteration, with the history of its executions: a performUpkeep transaction
\* that was confirmed (line 357) is an execution of the job at this time
monitor_jobs_recorded(name, check, tx_ok) ==
    /\ monitor_jobs_iteration(name, check, tx_ok)
    /\ performed_upkeeps' =
          IF should_execute_job(keeper_jobs[name], check) /\ tx_ok
          THEN DictSet(performed_upkeeps, name, upkeeps_of(name) \cup {now})
          ELSE performed_upkeeps

\* the status get_job_status gives for one job
keeper_job_status(kjob) ==
    [active |-> kjob.active, last_execution |-> kjob.last_execution]

\* ChainlinkKeeperManager.get_job_status
keeper_get_job_status ==
    [n \in DOMAIN keeper_jobs |-> keeper_job_status(keeper_jobs[n])]

----------------------------------------------------------------------------
(* GelatoManager *)

\* GelatoTask after create_task gave it its id
GelatoTask(task_id) ==
    [task_id |-> task_id, active |-> TRUE, last_execution |-> None]

\* gasUsed and feePaid of an execution, as the relay's status reports them
ExecutionGas == 150000
ExecutionFee == 3

\* one entry of the "executions" the relay's status endpoint returns
StatusExecution(timestamp, success) ==
    [timestamp |-> timestamp, success |-> success,
     gasUsed |-> ExecutionGas, feePaid |-> ExecutionFee]

TaskExecution(task_id, execution) ==
    [task_id |-> task_id, execution_time |-> execution.timestamp,
     gas_used |-> execution.gasUsed, fee_paid |-> execution.feePaid,
     success |-> execution.success]

\* how a transaction the adapter sends and waits for can end
TxOutcomes == {"ok", "RpcError"}

\* GelatoManager.add_task (and line 141 of create_task)
add_task(name, task) == DictSet(gelato_tasks, name, task)

\* GelatoManager.cancel_task: how it ends, given how its transaction ends
cancel_task_outcome(name, tx) ==
    IF name \notin DOMAIN gelato_tasks THEN "ValueError: Task not found"
    ELSE IF gelato_tasks[name].task_id = None THEN "ValueError: Task has no task ID"
    ELSE tx

\* a status processing that also takes an entry as new whose time is the last
\* seen one
RECURSIVE process_task_status_reemits(_, _, _)
process_task_status_reemits(task, executions, history) ==
    IF history = <<>> THEN [task |-> task, executions |-> executions]
    ELSE LET execution == Head(history)
             is_new == task.last_execution = None
                       \/ execution.timestamp >= task.last_execution
         IN  IF is_new
             THEN process_task_status_reemits(
                      [task EXCEPT !.last_execution = execution.timestamp],
                      Append(executions, TaskExecution(task.task_id, execution)),
                      Tail(history))
             ELSE process_task_status_reemits(task, executions, Tail(history))

\* _process_task_status: one TaskExecution per history entry later than
\* task.last_execution; gives the task and the executions list afterwards
RECURSIVE process_task_status(_, _, _)
process_task_status(task, executions, history) ==
    IF history = <<>> THEN [task |-> task, executions |-> executions]
    ELSE LET execution == Head(history)
             is_new == task.last_execution = None
                       \/ execution.timestamp > task.last_execution
         IN  IF is_new
             THEN process_task_status(
                      [task EXCEPT !.last_execution = execution.timestamp],
                      Append(executions, TaskExecution(task.task_id, execution)),
                      Tail(history))
             ELSE process_task_status(task, executions, Tail(history))

\* one iteration of monitor_tasks' for loop, for the task `name`: get_task_status
\* answers with the relay's history, or raises and the cycle is abandoned
monitor_tasks(name, http_ok) ==
    /\ gelato_manager
    /\ loop_running("monitor_tasks")
    /\ name \in DOMAIN gelato_tasks
    /\ gelato_tasks[name].active
    /\ gelato_tasks[name].task_id # None
    /\ IF http_ok
       THEN LET r == process_task_status(gelato_tasks[name], gelato_executions,
                                         relay_history[gelato_tasks[name].task_id])
            IN  /\ gelato_tasks' = [gelato_tasks EXCEPT ![name] = r.task]
                /\ gelato_executions' = r.executions
                /\ UNCHANGED monitoring_tasks
       ELSE \* get_task_status raises into the loop's except branch (line 278)
            /\ monitoring_tasks' =
                  [monitoring_tasks EXCEPT !["monitor_tasks"] = loop_after_exception]
            /\ UNCHANGED <<gelato_tasks, gelato_executions>>
    /\ UNCHANGED <<chainlink_manager, gelato_manager, jobs, job_assignments, metrics,
                   keeper_jobs, relay_history, tasks_created, performed_upkeeps, now>>

\* the names of self.tasks in the order the for loop visits them: the order of
\* insertion, which is the order of the task ids when every name is deployed once
RECURSIVE tasks_in_order(_)
tasks_in_order(S) ==
    IF S = {} THEN <<>>
    ELSE LET n == CHOOSE x \in S :
                     \A y \in S : gelato_tasks[x].task_id <= gelato_tasks[y].task_id
         IN  <<n>> \o tasks_in_order(S \ {n})

\* one cycle of monitor_tasks' for loop (lines 265-273) over the tasks in
\* `order`: an inactive task is skipped, the status request of a task in
\* `failing` raises and ends the cycle, any other task's status is processed
RECURSIVE run_cycle(_, _, _, _)
run_cycle(order, failing, tasks, executions) ==
    IF order = <<>> THEN [tasks |-> tasks, executions |-> executions, raised |-> FALSE]
    ELSE LET n == Head(order) IN
         IF ~tasks[n].active \/ tasks[n].task_id = None
         THEN run_cycle(Tail(order), failing, tasks, executions)
         ELSE IF n \in failing
         THEN [tasks |-> tasks, executions |-> executions, raised |-> TRUE]
         ELSE LET r == process_task_status(tasks[n], executions,
                                           relay_history[tasks[n].task_id])
              IN  run_cycle(Tail(order), failing,
                            [tasks EXCEPT ![n] = r.task], r.executions)

\* one whole cycle of monitor_tasks, from the start of the for loop to the sleep
\* that follows it or to the except branch
monitor_tasks_cycle(failing) ==
    /\ gelato_manager
    /\ loop_running("monitor_tasks")
    /\ LET r == run_cycle(tasks_in_order(DOMAIN gelato_tasks), failing,
                          gelato_tasks, gelato_executions)
       IN  /\ gelato_tasks' = r.tasks
           /\ gelato_executions' = r.executions
           /\ monitoring_tasks' =
                 IF r.raised
                 THEN [monitoring_tasks EXCEPT !["monitor_tasks"] = loop_after_exception]
                 ELSE monitoring_tasks
    /\ UNCHANGED <<chainlink_manager, gelato_manager, jobs, job_assignments, metrics,
                   keeper_jobs, relay_history, tasks_created, performed_upkeeps, now>>

\* the relay's status endpoint answers for the task of `name` with a history
\* of its own making, in whatever order
relay_answers(name, history) ==
    /\ name \in DOMAIN gelato_tasks
    /\ gelato_tasks[name].task_id # None
    /\ relay_history' = [relay_history EXCEPT ![gelato_tasks[name].task_id] = history]
    /\ UNCHANGED <<chainlink_manager, gelato_manager, jobs, job_assignments, metrics,
                   keeper_jobs, gelato_tasks, gelato_executions, tasks_created,
                   performed_upkeeps, monitoring_tasks, now>>

\* the executions of one task id among `executions` (line 333)
executions_of(executions, task_id) ==
    SelectSeq(executions, LAMBDA e : e.task_id = task_id)

\* the executions recorded for one task id
task_executions(task_id) == executions_of(gelato_executions, task_id)

successes(execs) == Len(SelectSeq(execs, LAMBDA e : e.success))

\* the summary get_task_summary gives for one task; success_rate is kept as the
\* pair (success_count, execution_count) whose quotient it is
task_summary(task, executions) ==
    LET te == executions_of(executions, task.task_id) IN
    [active |-> task.active,
     last_execution |-> task.last_execution,
     execution_count |-> Len(te),
     success_count |-> successes(te)]

\* GelatoManager.get_task_summary()["tasks"]
get_task_summary ==
    [n \in DOMAIN gelato_tasks |-> task_summary(gelato_tasks[n], gelato_executions)]

\* the relay network executes the task it holds for `name`, successfully or not:
\* one more entry in the history its status endpoint returns
relay_executes(name, success) ==
    /\ name \in DOMAIN gelato_tasks
    /\ gelato_tasks[name].active
    /\ LET history == relay_history[gelato_tasks[name].task_id] IN
       /\ Len(history) < MaxHistory
       /\ \A i \in 1..Len(history) : history[i].timestamp < now
       /\ relay_history' = [relay_history EXCEPT ![gelato_tasks[name].task_id] =
                               Append(@, StatusExecution(now, success))]
    /\ UNCHANGED <<chainlink_manager, gelato_manager, jobs, job_assignments, metrics,
                   keeper_jobs, gelato_tasks, gelato_executions, tasks_created,
                   performed_upkeeps, monitoring_tasks, now>>

----------------------------------------------------------------------------
(* AutomationOrchestrator.deploy_job *)

\* a deploy_job that logs an adapter failure and carries on
deploy_job_outcome_swallows(name, adapter) ==
    IF name \notin DOMAIN jobs THEN "ValueError: Job not found"
    ELSE IF job_assignments[name] = CHAINLINK /\ ~chainlink_manager
    THEN "ValueError: Chainlink Keepers not initialized"
    ELSE IF job_assignments[name] = GELATO /\ ~gelato_manager
    THEN "ValueError: Gelato Network not initialized"
    ELSE "ok"

\* what deploy_job(name) gives its caller, given how the adapter's
\* register_upkeep / create_task ends
deploy_job_outcome(name, adapter) ==
    IF name \notin DOMAIN jobs THEN "ValueError: Job not found"
    ELSE IF job_assignments[name] = CHAINLINK
    THEN IF ~chainlink_manager THEN "ValueError: Chainlink Keepers not initialized"
         ELSE adapter
    ELSE IF job_assignments[name] = GELATO
    THEN IF ~gelato_manager THEN "ValueError: Gelato Network not initialized"
         ELSE adapter
    ELSE "ok"

\* _deploy_chainlink_job after register_upkeep returned: the keeper adapter's jobs
\* after chainlink_manager.add_job
deploy_chainlink_job(name) == keeper_add_job(name, KeeperJob(jobs[name]))

\* _deploy_gelato_job after create_task returned: the relay adapter's tasks, where
\* the task has its fresh id
deploy_gelato_job(name) == add_task(name, GelatoTask(tasks_created + 1))

\* the orchestrator's jobs when deploy_job(name) returns or raises: created_at is
\* stamped after the adapter's deployment, line 186
deployed_jobs(name, adapter) ==
    IF deploy_job_outcome(name, adapter) = "ok"
    THEN [jobs EXCEPT ![name].created_at = now]
    ELSE jobs

\* the keeper adapter's jobs when deploy_job(name) returns or raises
deployed_keeper_jobs(name, adapter) ==
    IF deploy_job_outcome(name, adapter) = "ok" /\ job_assignments[name] = CHAINLINK
    THEN deploy_chainlink_job(name)
    ELSE keeper_jobs

\* the relay adapter's tasks when deploy_job(name) returns or raises
deployed_gelato_tasks(name, adapter) ==
    IF deploy_job_outcome(name, adapter) = "ok" /\ job_assignments[name] = GELATO
    THEN deploy_gelato_job(name)
    ELSE gelato_tasks

deploy_job(name, adapter) ==
    /\ name \in DOMAIN jobs /\ job_assignments[name] = CHAINLINK
          => adapter \in RegisterOutcomes
    /\ name \in DOMAIN jobs /\ job_assignments[name] = GELATO
          => adapter \in TxOutcomes
    \* an adapter that is not called has no outcome
    /\ deploy_job_outcome(name, "ok") # "ok" => adapter = "ok"
    /\ jobs' = deployed_jobs(name, adapter)
    /\ keeper_jobs' = deployed_keeper_jobs(name, adapter)
    /\ gelato_tasks' = deployed_gelato_tasks(name, adapter)
    /\ IF deploy_job_outcome(name, adapter) = "ok" /\ job_assignments[name] = GELATO
       THEN \* the relay serves a history for the new task id
            /\ tasks_created < MaxTasks
            /\ tasks_created' = tasks_created + 1
            /\ relay_history' =
                  DictSet(IF name \in DOMAIN gelato_tasks
                          THEN DictDel(relay_history, gelato_tasks[name].task_id)
                          ELSE relay_history,
                          tasks_created + 1, <<>>)
       ELSE UNCHANGED <<relay_history, tasks_created>>
    /\ UNCHANGED <<chainlink_manager, gelato_manager, job_assignments, metrics,
                   gelato_executions, performed_upkeeps, monitoring_tasks, now>>

----------------------------------------------------------------------------
(* AutomationOrchestrator.cancel_job *)

\* the adapter operations cancel_job(name) invokes
cancel_job_calls(name) ==
    IF name \notin DOMAIN jobs THEN <<>>
    ELSE IF job_assignments[name] = CHAINLINK /\ chainlink_manager THEN <<"remove_job">>
    ELSE IF job_assignments[name] = GELATO /\ gelato_manager THEN <<"cancel_task">>
    ELSE <<>>

\* what cancel_job(name) gives its caller, given how a cancellation transaction ends
cancel_job_outcome(name, tx) ==
    IF name \notin DOMAIN jobs THEN "ValueError: Job not found"
    ELSE IF job_assignments[name] = CHAINLINK
    THEN IF ~chainlink_manager THEN "AttributeError: NoneType has no remove_job"
         ELSE "ok"
    ELSE IF job_assignments[name] = GELATO
    THEN IF ~gelato_manager THEN "AttributeError: NoneType has no cancel_task"
         ELSE cancel_task_outcome(name, tx)
    ELSE "ok"

cancel_job(name, tx) ==
    /\ tx \in TxOutcomes
    \* a transaction has an outcome only when cancel_task is called
    /\ cancel_job_calls(name) # <<"cancel_task">> => tx = "ok"
    /\ IF cancel_job_outcome(name, tx) = "ok"
       THEN /\ keeper_jobs' = IF job_assignments[name] = CHAINLINK
                              THEN remove_job(name) ELSE keeper_jobs
            /\ gelato_tasks' = IF job_assignments[name] = GELATO
                               THEN [gelato_tasks EXCEPT ![name].active = FALSE]
                               ELSE gelato_tasks
            /\ jobs' = [jobs EXCEPT ![name].active = FALSE]
       ELSE UNCHANGED <<jobs, keeper_jobs, gelato_tasks>>
    /\ UNCHANGED <<chainlink_manager, gelato_manager, job_assignments, metrics,
                   gelato_executions, relay_history, tasks_created,
                   performed_upkeeps, monitoring_tasks, now>>

----------------------------------------------------------------------------
(* AutomationOrchestrator.cleanup *)

\* tx[n] is how the transaction of cancel_job(n) ends, tx2[n] how the one of the
\* relay adapter's own cleanup ends.  cancel_job(n) reads and writes only what
\* belongs to n, so the order of the loop over self.jobs does not matter.

\* a cleanup whose loop is left by the first cancellation that raises
cleanup_attempted_stops(tx) ==
    LET active == {n \in DOMAIN jobs : jobs[n].active}
        failing == {n \in active : cancel_job_outcome(n, tx[n]) # "ok"}
    IN  IF failing = {} THEN active ELSE {CHOOSE n \in failing : TRUE}

\* the jobs cleanup calls cancel_job for: every active one, each in its own
\* try / except (lines 448-453)
cleanup_attempted(tx) == {n \in DOMAIN jobs : jobs[n].active}

\* cancel_job(n) was attempted and returned
job_cancelled(n, tx) ==
    n \in cleanup_attempted(tx) /\ cancel_job_outcome(n, tx[n]) = "ok"

\* the jobs whose cancellation raised: "Failed to cancel job" is logged for each
cleanup_logged(tx) ==
    {n \in cleanup_attempted(tx) : cancel_job_outcome(n, tx[n]) # "ok"}

\* what cleanup gives its caller: an exception only if one left the loop
cleanup_outcome(tx) ==
    IF cleanup_attempted(tx) = {n \in DOMAIN jobs : jobs[n].active}
    THEN "ok"
    ELSE "raised"

\* a cleanup that drops the jobs it cancelled from the registry
cleanup_jobs_drops_cancelled(tx) ==
    [n \in {k \in DOMAIN jobs : ~job_cancelled(k, tx)} |-> jobs[n]]

\* self.jobs when cleanup returns
cleanup_jobs(tx) ==
    [n \in DOMAIN jobs |->
        IF job_cancelled(n, tx) THEN [jobs[n] EXCEPT !.active = FALSE] ELSE jobs[n]]

\* the keeper adapter's jobs when cleanup returns (its own cleanup does nothing)
cleanup_keeper_jobs(tx) ==
    [n \in {k \in DOMAIN keeper_jobs :
               ~(k \in DOMAIN jobs /\ job_cancelled(k, tx)
                 /\ job_assignments[k] = CHAINLINK)} |-> keeper_jobs[n]]

\* the relay adapter's tasks after the loop over the jobs
tasks_after_jobs(tx) ==
    [n \in DOMAIN gelato_tasks |->
        IF n \in DOMAIN jobs /\ job_cancelled(n, tx) /\ job_assignments[n] = GELATO
        THEN [gelato_tasks[n] EXCEPT !.active = FALSE]
        ELSE gelato_tasks[n]]

\* the relay adapter's tasks when cleanup returns: GelatoManager.cleanup cancels
\* every task still active, each in its own try / except
cleanup_gelato_tasks(tx, tx2) ==
    [n \in DOMAIN gelato_tasks |->
        LET task == tasks_after_jobs(tx)[n]
        IN  IF gelato_manager /\ task.active /\ task.task_id # None /\ tx2[n] = "ok"
            THEN [task EXCEPT !.active = FALSE]
            ELSE task]

cleanup(tx, tx2) ==
    \* a transaction has an outcome only when cancel_task is called
    /\ \A n \in DOMAIN tx :
          \/ n \in cleanup_attempted(tx) /\ cancel_job_calls(n) = <<"cancel_task">>
          \/ tx[n] = "ok"
    /\ \A n \in DOMAIN tx2 :
          \/ /\ gelato_manager
             /\ n \in DOMAIN gelato_tasks
             /\ tasks_after_jobs(tx)[n].active
             /\ tasks_after_jobs(tx)[n].task_id # None
          \/ tx2[n] = "ok"
    /\ jobs' = cleanup_jobs(tx)
    /\ keeper_jobs' = cleanup_keeper_jobs(tx)
    /\ gelato_tasks' = cleanup_gelato_tasks(tx, tx2)
    /\ UNCHANGED <<chainlink_manager, gelato_manager, job_assignments, metrics,
                   gelato_executions, relay_history, tasks_created,
                   performed_upkeeps, monitoring_tasks, now>>

----------------------------------------------------------------------------
(* AutomationOrchestrator._collect_metrics *)

\* the pairs <<execution_count, success_count>>, execution_count up to 50, for
\* which the float product execution_count * (success_count / execution_count)
\* falls just below success_count, so that int() truncates it to one less
FloatProductFallsShort ==
    {<<22, 15>>, <<23, 13>>, <<26, 15>>, <<39, 31>>, <<43, 23>>, <<43, 31>>,
     <<44, 15>>, <<44, 30>>, <<45, 13>>, <<45, 26>>, <<46, 13>>, <<46, 26>>,
     <<47, 3>>, <<47, 6>>, <<47, 12>>, <<47, 24>>, <<47, 31>>, <<49, 1>>,
     <<49, 2>>, <<49, 4>>, <<49, 8>>, <<49, 16>>, <<49, 27>>, <<49, 32>>,
     <<50, 29>>}

\* int(execution_count * success_rate), success_rate = success_count / execution_count
int_count_times_rate(execution_count, success_count) ==
    IF <<execution_count, success_count>> \in FloatProductFallsShort
    THEN success_count - 1
    ELSE success_count

\* an update from the keeper's status that moves last_execution_time only
update_metrics_from_chainlink_uncounted(m, job_status) ==
    IF job_status.last_execution # None
       /\ (m.last_execution_time = None
           \/ job_status.last_execution > m.last_execution_time)
    THEN [m EXCEPT !.last_execution_time = job_status.last_execution]
    ELSE m

\* _update_metrics_from_chainlink, for one job's metrics
update_metrics_from_chainlink(m, job_status) ==
    IF job_status.last_execution # None
       /\ (m.last_execution_time = None
           \/ job_status.last_execution > m.last_execution_time)
    THEN [m EXCEPT !.last_execution_time = job_status.last_execution,
                   !.total_executions = @ + 1,
                   !.successful_executions = @ + 1]
    ELSE m

\* an update from the relay's summary that leaves failed_executions as it was
update_metrics_from_gelato_keeps_failed(m, task_info) ==
    LET execution_count == task_info.execution_count
        successful == int_count_times_rate(execution_count, task_info.success_count)
        m1 == IF execution_count > m.total_executions
              THEN [m EXCEPT !.total_executions = execution_count,
                             !.successful_executions = successful]
              ELSE m
    IN  IF task_info.last_execution # None
        THEN [m1 EXCEPT !.last_execution_time = task_info.last_execution]
        ELSE m1

\* _update_metrics_from_gelato, for one job's metrics
update_metrics_from_gelato(m, task_info) ==
    LET execution_count == task_info.execution_count
        successful == int_count_times_rate(execution_count, task_info.success_count)
        m1 == IF execution_count > m.total_executions
              THEN [m EXCEPT !.total_executions = execution_count,
                             !.successful_executions = successful,
                             !.failed_executions = execution_count - successful]
              ELSE m
    IN  IF task_info.last_execution # None
        THEN [m1 EXCEPT !.last_execution_time = task_info.last_execution]
        ELSE m1

\* one pass of _collect_metrics' loop body: Chainlink's status first, then Gelato's
collect_metrics ==
    /\ loop_running("collect_metrics")
    /\ \A n \in DOMAIN metrics : metrics[n].total_executions < MaxCount
    /\ metrics' = [n \in DOMAIN metrics |->
          LET m1 == IF chainlink_manager /\ n \in DOMAIN keeper_jobs
                    THEN update_metrics_from_chainlink(metrics[n],
                                                       keeper_get_job_status[n])
                    ELSE metrics[n]
          IN  IF gelato_manager /\ n \in DOMAIN gelato_tasks
              THEN update_metrics_from_gelato(m1, get_task_summary[n])
              ELSE m1]
    /\ UNCHANGED <<chainlink_manager, gelato_manager, jobs, job_assignments,
                   keeper_jobs, gelato_tasks, gelato_executions, relay_history,
                   tasks_created, performed_upkeeps, monitoring_tasks, now>>

----------------------------------------------------------------------------
(* AutomationOrchestrator.get_job_status, get_performance_report *)

\* a rate that divides also when nothing was executed
success_rate_always_divides(successful, total) == <<successful, total>>

\* successful / total if total > 0 else 0, as the fraction <<numerator,
\* denominator>>
success_rate(successful, total) ==
    IF total > 0 THEN <<successful, total>> ELSE <<0, 1>>

\* get_job_status: every job of self.jobs with its attributes and its metrics
\* (fresh ones if it has none)
get_job_status ==
    [total_jobs |-> Cardinality(DOMAIN jobs),
     active_jobs |-> Cardinality({n \in DOMAIN jobs : jobs[n].active}),
     jobs |-> [n \in DOMAIN jobs |->
                 [active |-> jobs[n].active,
                  provider |-> job_assignments[n],
                  frequency |-> jobs[n].frequency,
                  priority |-> jobs[n].priority,
                  created_at |-> jobs[n].created_at,
                  metrics |-> IF n \in DOMAIN metrics THEN metrics[n]
                              ELSE ExecutionMetrics,
                  success_rate |->
                     LET m == IF n \in DOMAIN metrics THEN metrics[n]
                              ELSE ExecutionMetrics
                     IN  success_rate(m.successful_executions, m.total_executions)]]]

\* sum(f[n] for n in S)
RECURSIVE SumOver(_, _)
SumOver(S, f) ==
    IF S = {} THEN 0
    ELSE LET n == CHOOSE x \in S : TRUE IN f[n] + SumOver(S \ {n}, f)

\* get_performance_report: the overall metrics, the job count of each provider
\* and the success rate of each entry of self.metrics
get_performance_report ==
    [overall_success_rate |->
        success_rate(
            SumOver(DOMAIN metrics,
                    [n \in DOMAIN metrics |-> metrics[n].successful_executions]),
            SumOver(DOMAIN metrics,
                    [n \in DOMAIN metrics |-> metrics[n].total_executions])),
     job_metrics |->
        [n \in DOMAIN metrics |->
            [executions |-> metrics[n].total_executions,
             success_rate |-> success_rate(metrics[n].successful_executions,
                                           metrics[n].total_executions)]],
     total_executions |->
        SumOver(DOMAIN metrics, [n \in DOMAIN metrics |-> metrics[n].total_executions]),
     total_successful |->
        SumOver(DOMAIN metrics,
                [n \in DOMAIN metrics |-> metrics[n].successful_executions]),
     total_gas_used |->
        SumOver(DOMAIN metrics, [n \in DOMAIN metrics |-> metrics[n].total_gas_used]),
     total_fees_paid |->
        SumOver(DOMAIN metrics, [n \in DOMAIN metrics |-> metrics[n].total_fees_paid]),
     job_count |->
        [p \in {CHAINLINK, GELATO} |->
            Cardinality({n \in DOMAIN job_assignments : job_assignments[n] = p})]]

\* time passes
tick ==
    /\ now < MaxTime * TickSeconds
    /\ now' = now + TickSeconds
    /\ UNCHANGED <<chainlink_manager, gelato_manager, jobs, job_assignments, metrics,
                   keeper_jobs, gelato_tasks, gelato_executions, relay_history,
                   tasks_created, performed_upkeeps, monitoring_tasks>>

----------------------------------------------------------------------------
(* Specifications *)

\* AutomationOrchestrator.__init__: each provider is initialised or stays None
\* what the configuration says about one provider: its section is absent or not
\* enabled, enabled with what its manager needs, or enabled with a manager whose
\* construction raises (a missing key, a bad private key)
ProviderConfigs == {"disabled", "enabled", "enabled, manager raises"}

Configs == [chainlink : ProviderConfigs, gelato : ProviderConfigs]

\* _initialize_providers for one provider: the manager is kept only when it was
\* enabled and its construction returned; an exception is logged
initialize_provider(c) == c = "enabled"

\* what AutomationOrchestrator(config) gives its caller: no statement of
\* __init__ or _initialize_providers raises
init_outcome(config) == "ok"

Init ==
    /\ \E config \in Configs :
          /\ init_outcome(config) = "ok"
          /\ chainlink_manager = initialize_provider(config.chainlink)
          /\ gelato_manager = initialize_provider(config.gelato)
    /\ jobs = EmptyDict
    /\ job_assignments = EmptyDict
    /\ metrics = EmptyDict
    /\ keeper_jobs = EmptyDict
    /\ gelato_tasks = EmptyDict
    /\ gelato_executions = <<>>
    /\ relay_history = EmptyDict
    /\ tasks_created = 0
    /\ performed_upkeeps = EmptyDict
    /\ monitoring_tasks = EmptyDict
    /\ now = 0

\* the jobs a caller adds in the lifecycle specification
JobInputs ==
    {AutomationJob(n, 300000, 1800, 3, p) : n \in Names, p \in AutomationProvider}

Next ==
    \/ \E job \in JobInputs : add_job(job)
    \/ \E n \in Names, o \in RegisterOutcomes \cup TxOutcomes : deploy_job(n, o)
    \/ \E n \in Names, tx \in TxOutcomes : cancel_job(n, tx)
    \/ \E n \in Names, c \in TriggerOutcomes, ok \in BOOLEAN : monitor_jobs(n, c, ok)
    \/ \E n \in Names : monitor_tasks(n, TRUE)
    \/ \E n \in Names, ok \in BOOLEAN : relay_executes(n, ok)
    \/ collect_metrics
    \/ monitor_all_jobs
    \/ tick

Spec == Init /\ [][Next]_vars

\* the lifecycle with the history of the keeper's executions
NextRecorded ==
    \/ \E job \in JobInputs : add_job(job)
    \/ \E n \in Names, o \in RegisterOutcomes \cup TxOutcomes : deploy_job(n, o)
    \/ \E n \in Names, tx \in TxOutcomes : cancel_job(n, tx)
    \/ \E n \in Names, c \in TriggerOutcomes, ok \in BOOLEAN :
          monitor_jobs_recorded(n, c, ok)
    \/ \E n \in Names : monitor_tasks(n, TRUE)
    \/ \E n \in Names, ok \in BOOLEAN : relay_executes(n, ok)
    \/ collect_metrics
    \/ monitor_all_jobs
    \/ tick

SpecRecorded == Init /\ [][NextRecorded]_vars

\* one job polled by loops whose polls may fail and which may be cancelled
NextMonitor ==
    \/ \E job \in JobInputs : add_job(job)
    \/ \E n \in Names, o \in RegisterOutcomes \cup TxOutcomes : deploy_job(n, o)
    \/ monitor_all_jobs
    \/ \E n \in Names, c \in TriggerOutcomes, ok \in BOOLEAN : monitor_jobs(n, c, ok)
    \/ \E n \in Names, ok \in BOOLEAN : monitor_tasks(n, ok)
    \/ \E n \in Names, ok \in BOOLEAN : relay_executes(n, ok)
    \/ collect_metrics
    \/ \E t \in {"monitor_jobs", "monitor_tasks", "collect_metrics"} : sleep_over(t)
    \/ cancel_monitoring

SpecMonitor == Init /\ [][NextMonitor]_vars

\* one relay task polled against histories the status endpoint may return, in
\* order of occurrence or not
HistoryTimes == {0, 60, 120}

HistoryEntries == {StatusExecution(t, ok) : t \in HistoryTimes, ok \in BOOLEAN}

Histories ==
    {<<>>} \cup {<<e>> : e \in HistoryEntries}
           \cup {<<e1, e2>> : e1 \in HistoryEntries, e2 \in HistoryEntries}

NextStatus ==
    \/ \E n \in Names : add_job(AutomationJob(n, 300000, 1800, 3, GELATO))
    \/ \E n \in Names, o \in TxOutcomes :
          \* the job is deployed once
          n \notin DOMAIN gelato_tasks /\ deploy_job(n, o)
    \/ monitor_all_jobs
    \/ \E n \in Names, history \in Histories : relay_answers(n, history)
    \/ \E n \in Names : monitor_tasks(n, TRUE)

SpecStatus == Init /\ [][NextStatus]_vars

\* one keeper job, hourly or half-hourly, polled by the keeper adapter's loop as
\* time passes
NextKeeper ==
    \/ \E n \in Names, f \in {1800, 3600} :
          add_job(AutomationJob(n, 300000, f, 3, CHAINLINK))
    \/ \E n \in Names, o \in RegisterOutcomes : deploy_job(n, o)
    \/ \E n \in Names : cancel_job(n, "ok")
    \/ monitor_all_jobs
    \/ \E n \in Names, c \in TriggerOutcomes, ok \in BOOLEAN :
          monitor_jobs_recorded(n, c, ok)
    \/ collect_metrics
    \/ tick

SpecKeeper == Init /\ [][NextKeeper]_vars

\* the job "harvest" of the end-to-end scenario, from add_job to the status query
HarvestJob == AutomationJob("harvest", 300000, 3600, 3, AUTO)

NextHarvest ==
    \/ add_job(HarvestJob)
    \/ \E o \in RegisterOutcomes \cup TxOutcomes : deploy_job("harvest", o)
    \/ monitor_all_jobs
    \/ \E c \in TriggerOutcomes, ok \in BOOLEAN : monitor_jobs("harvest", c, ok)
    \/ monitor_tasks("harvest", TRUE)
    \/ \E ok \in BOOLEAN : relay_executes("harvest", ok)
    \/ collect_metrics
    \/ tick

SpecHarvest == Init /\ [][NextHarvest]_vars

\* one job deployed through the keeper adapter's register_upkeep
LinkBalances == {0, funding_amount - 1, funding_amount, funding_amount + 1}

RegisterFailures ==
    {"none", "balanceOf", "build approve", "send approve", "wait approve",
     "build registerUpkeep", "send registerUpkeep", "wait registerUpkeep"}

NextRegister ==
    \/ \E job \in JobInputs : add_job(job)
    \/ \E n \in Names, balance \in LinkBalances, fail_at \in RegisterFailures :
          /\ n \in DOMAIN jobs
          /\ job_assignments[n] = CHAINLINK
          /\ deploy_job(n, register_upkeep(balance, fail_at).outcome)
    \/ \E n \in Names, tx \in TxOutcomes :
          /\ n \in DOMAIN jobs
          /\ job_assignments[n] = GELATO
          /\ deploy_job(n, tx)
    \/ \E n \in Names, tx \in TxOutcomes : cancel_job(n, tx)
    \/ tick

SpecRegister == Init /\ [][NextRegister]_vars

\* two jobs through every handler at one instant, for the claims about the
\* registry and the lifecycle of a job
RegistryNames == {"harvest", "rebalance"}

RegistryInputs ==
    {AutomationJob(n, 300000, 1800, 3, p) :
        n \in RegistryNames, p \in AutomationProvider}

NextRegistry ==
    \/ \E job \in RegistryInputs : add_job(job)
    \/ \E n \in RegistryNames, o \in RegisterOutcomes \cup TxOutcomes : deploy_job(n, o)
    \/ \E n \in RegistryNames, tx \in TxOutcomes : cancel_job(n, tx)
    \/ \E n \in RegistryNames, c \in TriggerOutcomes, ok \in BOOLEAN :
          monitor_jobs(n, c, ok)
    \/ \E n \in RegistryNames : monitor_tasks(n, TRUE)
    \/ collect_metrics
    \/ monitor_all_jobs
    \/ \E tx, tx2 \in [RegistryNames -> TxOutcomes] : cleanup(tx, tx2)

SpecRegistry == Init /\ [][NextRegistry]_vars

\* two jobs that are added, deployed and then cleaned up
NextCleanup ==
    \/ \E job \in RegistryInputs : add_job(job)
    \/ \E n \in RegistryNames, o \in RegisterOutcomes \cup TxOutcomes : deploy_job(n, o)
    \/ \E tx, tx2 \in [RegistryNames -> TxOutcomes] : cleanup(tx, tx2)

SpecCleanup == Init /\ [][NextCleanup]_vars

\* two relay tasks, each deployed once, polled cycle by cycle; the status
\* request for "harvest" may fail in any cycle, the one for "rebalance" never does
FailingTasks == {"harvest"}

NextStarve ==
    \/ \E n \in RegistryNames : add_job(AutomationJob(n, 300000, 1800, 3, GELATO))
    \/ \E n \in RegistryNames, o \in TxOutcomes :
          n \notin DOMAIN gelato_tasks /\ deploy_job(n, o)
    \/ \E n \in RegistryNames, ok \in BOOLEAN : relay_executes(n, ok)
    \/ monitor_all_jobs
    \/ \E failing \in SUBSET FailingTasks : monitor_tasks_cycle(failing)
    \/ sleep_over("monitor_tasks")

\* monitor_all_jobs is called, and the event loop runs the relay loop's cycles
\* and ends its sleeps
SpecStarve ==
    /\ Init
    /\ [][NextStarve]_vars
    /\ WF_vars(monitor_all_jobs)
    /\ WF_vars(\E failing \in SUBSET FailingTasks : monitor_tasks_cycle(failing))
    /\ WF_vars(sleep_over("monitor_tasks"))

\* two jobs that are deployed, executed and collected, for the claims about the
\* status and the report
NextReport ==
    \/ \E job \in RegistryInputs : add_job(job)
    \/ \E n \in RegistryNames, o \in RegisterOutcomes \cup TxOutcomes : deploy_job(n, o)
    \/ monitor_all_jobs
    \/ \E n \in RegistryNames, c \in TriggerOutcomes, ok \in BOOLEAN :
          monitor_jobs(n, c, ok)
    \/ \E n \in RegistryNames : monitor_tasks(n, TRUE)
    \/ \E n \in RegistryNames, ok \in BOOLEAN : relay_executes(n, ok)
    \/ collect_metrics

SpecReport == Init /\ [][NextReport]_vars

\* job attributes a caller may pass, for the claims about selection and validation
SelectNames == {"harvest"}
SelectGas == {0, 1000, 4000, 4500, 300000, 500000}
SelectFrequency == {0, 1800, 3600, 86400}
SelectPriority == {1, 2, 3}

SelectInputs ==
    {AutomationJob(n, g, f, pr, p) :
        n \in SelectNames, g \in SelectGas, f \in SelectFrequency,
        pr \in SelectPriority, p \in AutomationProvider}

NextSelect == \E job \in SelectInputs : add_job(job)

SpecSelect == Init /\ [][NextSelect]_vars

\* two jobs, both left to the selector, for the claims that compare selections
AutoInputs ==
    {AutomationJob(n, g, f, pr, AUTO) :
        n \in {"harvest", "rebalance"}, g \in {4000, 300000}, f \in {1800, 3600},
        pr \in {1, 3}}

NextAuto == \E job \in AutoInputs : add_job(job)

SpecAuto == Init /\ [][NextAuto]_vars

----------------------------------------------------------------------------
(* Properties of provider selection and add_job *)

\* the scores as the specification states them, in thousandths
StatedKeeperScore(job) ==
    Max(0, 100000 - 20 * job.gas_limit) + 90000
    + (IF job.frequency >= 3600 THEN 20000 ELSE 0)

StatedRelayScore(job) ==
    Max(0, 100000 - 25 * job.gas_limit) + 85000
    + (IF job.frequency < 3600 THEN 25000 ELSE 0)
    + (IF job.priority >= 2 THEN 15000 ELSE 0)

HasAttributes(job, gas_limit, frequency, priority) ==
    /\ job.gas_limit = gas_limit
    /\ job.frequency = frequency
    /\ job.priority = priority

BothAdapters == chainlink_manager /\ gelato_manager

\* C1: every add_job of an AUTO job, with both adapters initialised, assigns the
\* provider whose stated score is higher; gas=500000, frequency=86400, priority=2
\* scores 110 against 100 and goes to the keeper; gas=300000, frequency=1800,
\* priority=3 scores 90 against 125 and goes to the relay.
C1_HigherScoreAssigned ==
    [][\A job \in SelectInputs :
          (add_job(job) /\ job.provider = AUTO /\ BothAdapters)
          => /\ StatedKeeperScore(job) > StatedRelayScore(job)
                   => job_assignments'[job.name] = CHAINLINK
             /\ StatedRelayScore(job) > StatedKeeperScore(job)
                   => job_assignments'[job.name] = GELATO
             /\ HasAttributes(job, 500000, 86400, 2)
                   => /\ chainlink_score(job) = 110000
                      /\ gelato_score(job) = 100000
                      /\ job_assignments'[job.name] = CHAINLINK
             /\ HasAttributes(job, 300000, 1800, 3)
                   => /\ chainlink_score(job) = 90000
                      /\ gelato_score(job) = 125000
                      /\ job_assignments'[job.name] = GELATO]_vars

\* the relay won gas=300000, frequency=1800, priority=3 with both adapters there
C1_Witness ==
    /\ BothAdapters
    /\ "harvest" \in DOMAIN jobs
    /\ HasAttributes(jobs["harvest"], 300000, 1800, 3)
    /\ job_assignments["harvest"] = GELATO

SameAttributes(j1, j2) ==
    HasAttributes(j1, j2.gas_limit, j2.frequency, j2.priority)

\* C2: selections made for jobs of the same attributes, by the same set of
\* adapters, agree; and when keeper and relay score the same (as for gas=4000,
\* frequency=1800, priority=1: 110 each) the keeper, first in order, is chosen.
C2_DeterministicKeeperOnTie ==
    /\ \A a, b \in DOMAIN jobs :
          SameAttributes(jobs[a], jobs[b]) => job_assignments[a] = job_assignments[b]
    /\ \A a \in DOMAIN jobs :
          (BothAdapters /\ StatedKeeperScore(jobs[a]) = StatedRelayScore(jobs[a]))
          => job_assignments[a] = CHAINLINK
    /\ \A a \in DOMAIN jobs :
          (BothAdapters /\ HasAttributes(jobs[a], 4000, 1800, 1))
          => /\ chainlink_score(jobs[a]) = 110000
             /\ gelato_score(jobs[a]) = 110000
             /\ job_assignments[a] = CHAINLINK

\* two jobs of the tying attributes were both selected for, and both got the keeper
C2_Witness ==
    /\ BothAdapters
    /\ DOMAIN jobs = {"harvest", "rebalance"}
    /\ \A a \in DOMAIN jobs :
          HasAttributes(jobs[a], 4000, 1800, 1) /\ job_assignments[a] = CHAINLINK

Initialized(provider) ==
    IF provider = CHAINLINK THEN chainlink_manager ELSE gelato_manager

\* C3: add_job of a job with an explicit provider assigns that provider when its
\* adapter is initialised, and otherwise fails with ProviderNotAvailable and
\* stores nothing.
C3_ExplicitProviderOrNotAvailable ==
    [][\A job \in SelectInputs :
          (add_job(job) /\ job.provider # AUTO)
          => IF Initialized(job.provider)
             THEN /\ add_job_outcome(job) = "ok"
                  /\ job_assignments'[job.name] = job.provider
             ELSE /\ add_job_outcome(job) = "ProviderNotAvailable"
                  /\ UNCHANGED <<jobs, job_assignments, metrics>>]_vars

\* C4: add_job of an AUTO job when no adapter is initialised raises the
\* no-provider error and makes no assignment: the registry and the assignment
\* map stay as they were.
C4_AutoWithoutAdaptersFails ==
    [][\A job \in SelectInputs :
          (add_job(job) /\ job.provider = AUTO /\ ~chainlink_manager /\ ~gelato_manager)
          => /\ add_job_outcome(job) = "ValueError: No automation providers available"
             /\ UNCHANGED <<jobs, job_assignments>>]_vars

\* the failed add_job has run (it left its metrics entry) and assigned nothing
C4_Witness ==
    /\ ~chainlink_manager /\ ~gelato_manager
    /\ "harvest" \in DOMAIN metrics
    /\ "harvest" \notin DOMAIN job_assignments
    /\ "harvest" \notin DOMAIN jobs

\* C5: add_job with a name already in the registry fails with DuplicateJob and
\* leaves the job, its assignment and its metrics as they were.
C5_DuplicateAddRejected ==
    [][\A job \in JobInputs :
          (add_job(job) /\ job.name \in DOMAIN jobs)
          => /\ add_job_outcome(job) = "DuplicateJob"
             /\ UNCHANGED <<jobs, job_assignments, metrics>>]_vars

\* C6: every job in the registry has frequency > 0 and gas_limit > 0.
C6_RegisteredJobsValid ==
    \A n \in DOMAIN jobs : jobs[n].frequency > 0 /\ jobs[n].gas_limit > 0

\* C7: registry, assignment map and metrics map have the same keys, and every
\* assignment is the keeper or the relay and equals the job's provider field.
C7_MapsAgree ==
    /\ DOMAIN jobs = DOMAIN job_assignments
    /\ DOMAIN jobs = DOMAIN metrics
    /\ \A n \in DOMAIN jobs :
          /\ job_assignments[n] \in {CHAINLINK, GELATO}
          /\ job_assignments[n] = jobs[n].provider

----------------------------------------------------------------------------
(* Properties of deploy_job, cancel_job and metrics collection *)

\* the adapter's register / create operation succeeded for the job `name`
RegistrationSucceeded(name, adapter) ==
    /\ name \in DOMAIN jobs
    /\ Initialized(job_assignments[name])
    /\ adapter = "ok"

InPollingSet(name, provider, keeper, tasks) ==
    IF provider = CHAINLINK
    THEN name \in DOMAIN keeper /\ keeper[name].active
    ELSE name \in DOMAIN tasks /\ tasks[name].active

\* C8: deploy_job stamps created_at and puts the job in the assigned adapter's
\* polling set when the adapter's registration succeeded; for an unknown name, an
\* uninitialised adapter or a failed registration it raises and leaves created_at
\* and the adapters' job sets unchanged.
C8_DeployOnlyOnSuccess ==
    \A n \in Names, adapter \in RegisterOutcomes \cup TxOutcomes :
       IF RegistrationSucceeded(n, adapter)
       THEN /\ deploy_job_outcome(n, adapter) = "ok"
            /\ deployed_jobs(n, adapter)[n].created_at = now
            /\ InPollingSet(n, job_assignments[n], deployed_keeper_jobs(n, adapter),
                            deployed_gelato_tasks(n, adapter))
       ELSE /\ deploy_job_outcome(n, adapter) # "ok"
            /\ deployed_jobs(n, adapter) = jobs
            /\ deployed_keeper_jobs(n, adapter) = keeper_jobs
            /\ deployed_gelato_tasks(n, adapter) = gelato_tasks

\* a relay job deployed after the clock moved: stamped and in the polling set
C8_Witness ==
    /\ "harvest" \in DOMAIN jobs
    /\ job_assignments["harvest"] = GELATO
    /\ jobs["harvest"].created_at = TickSeconds
    /\ InPollingSet("harvest", GELATO, keeper_jobs, gelato_tasks)

\* C9: cancel_job on a job that is already inactive returns success and invokes
\* no adapter operation, whichever adapter the job is assigned to.
C9_CancelInactiveIsNoOp ==
    \A n \in DOMAIN jobs :
       ~jobs[n].active
       => /\ cancel_job_calls(n) = <<>>
          /\ \A tx \in TxOutcomes : cancel_job_outcome(n, tx) = "ok"

\* C10: a metrics collection never lowers total_executions,
\* successful_executions or failed_executions of any job.
C10_CountersNeverRegress ==
    [][collect_metrics
       => \A n \in DOMAIN metrics :
             /\ metrics'[n].total_executions >= metrics[n].total_executions
             /\ metrics'[n].successful_executions >= metrics[n].successful_executions
             /\ metrics'[n].failed_executions >= metrics[n].failed_executions]_vars

----------------------------------------------------------------------------
(* Properties of the metrics *)

\* the job is held by the keeper adapter only, which has executed it
KeeperExecuted(n) ==
    /\ job_assignments[n] = CHAINLINK
    /\ n \in DOMAIN keeper_jobs /\ keeper_jobs[n].last_execution # None
    /\ n \notin DOMAIN gelato_tasks

\* the job is held by the relay adapter only, in the only task ever created
RelayOnlyTask(n) ==
    /\ job_assignments[n] = GELATO
    /\ n \in DOMAIN gelato_tasks /\ n \notin DOMAIN keeper_jobs
    /\ tasks_created = 1

\* C11: after a metrics collection, total_executions of a job is the number of
\* distinct (by timestamp) executions that occurred for it: the confirmed
\* performUpkeep transactions of a keeper job, the executions the adapter recorded
\* for a relay job; also when several happened since the collection before.
C11_EveryExecutionCountedOnce ==
    [][collect_metrics
       => \A n \in DOMAIN jobs :
             /\ KeeperExecuted(n)
                   => metrics'[n].total_executions = Cardinality(upkeeps_of(n))
             /\ RelayOnlyTask(n)
                   => metrics'[n].total_executions
                         = Len(task_executions(gelato_tasks[n].task_id))]_vars

\* C12: in every state and for every job, successful_executions plus
\* failed_executions is at most total_executions; the two are equal after every
\* metrics update (and before the first, when all three are zero).
C12_ClassifiedWithinTotal ==
    \A n \in DOMAIN metrics :
       /\ metrics[n].successful_executions + metrics[n].failed_executions
             <= metrics[n].total_executions
       /\ metrics[n].successful_executions + metrics[n].failed_executions
             = metrics[n].total_executions

\* a collection counted a successful and a failed execution of a job
C12_Witness ==
    \E n \in DOMAIN metrics :
       /\ metrics[n].successful_executions >= 1
       /\ metrics[n].failed_executions >= 1
       /\ metrics[n].total_executions >= 2

\* the relay's history of a task gains an entry at the current time
CanExecuteNow(history) == \A i \in 1..Len(history) : history[i].timestamp < now

\* the metrics of the keeper job n after the next collection, when the adapter's
\* execution now ends as tx_ok says / when it does not execute
KeeperCollectedAfter(n, tx_ok) ==
    update_metrics_from_chainlink(metrics[n],
                                  keeper_job_status(execute_job(keeper_jobs[n], tx_ok)))

KeeperCollected(n) ==
    update_metrics_from_chainlink(metrics[n], keeper_job_status(keeper_jobs[n]))

\* the metrics of the relay job n after the next poll and collection, when the
\* relay's history is `history`
RelayCollected(n, history) ==
    LET r == process_task_status(gelato_tasks[n], gelato_executions, history)
    IN  update_metrics_from_gelato(metrics[n], task_summary(r.task, r.executions))

OneMoreFailed(m, m0) ==
    /\ m.total_executions = m0.total_executions + 1
    /\ m.failed_executions = m0.failed_executions + 1
    /\ m.successful_executions = m0.successful_executions

\* C13: an execution that fails is counted by the next collection as one more
\* total and one more failed execution and no more successful ones, compared with
\* the collection without it: for a keeper job whose execution transaction
\* fails, and for a relay job whose history gains an entry with success = false.
C13_FailedExecutionCounted ==
    \A n \in DOMAIN jobs :
       /\ (/\ job_assignments[n] = CHAINLINK
           /\ n \in DOMAIN keeper_jobs /\ n \notin DOMAIN gelato_tasks
           /\ should_execute_job(keeper_jobs[n], "needed"))
          => OneMoreFailed(KeeperCollectedAfter(n, FALSE), KeeperCollected(n))
       /\ (/\ RelayOnlyTask(n) /\ gelato_tasks[n].active
           /\ CanExecuteNow(relay_history[gelato_tasks[n].task_id]))
          => LET history == relay_history[gelato_tasks[n].task_id]
             IN  OneMoreFailed(
                    RelayCollected(n, Append(history, StatusExecution(now, FALSE))),
                    RelayCollected(n, history))

\* sum(e[field] for e in execs)
RECURSIVE SumField(_, _)
SumField(execs, field) ==
    IF execs = <<>> THEN 0 ELSE Head(execs)[field] + SumField(Tail(execs), field)

\* the metrics of the relay job n count exactly the executions recorded for it
RelayCollectedAll(n) ==
    /\ RelayOnlyTask(n)
    /\ metrics[n].total_executions = Len(task_executions(gelato_tasks[n].task_id))

\* C14: once the executions recorded for a job are counted in its metrics,
\* total_gas_used and total_fees_paid are the sums of gas_used and fee_paid over
\* those executions; and the performance report's total gas and total fees are
\* the sums of the jobs' totals.
C14_GasAndFeesCumulative ==
    /\ \A n \in DOMAIN jobs :
          RelayCollectedAll(n)
          => LET te == task_executions(gelato_tasks[n].task_id)
             IN  /\ metrics[n].total_gas_used = SumField(te, "gas_used")
                 /\ metrics[n].total_fees_paid = SumField(te, "fee_paid")
    /\ get_performance_report.total_gas_used
          = SumOver(DOMAIN metrics, [n \in DOMAIN metrics |-> metrics[n].total_gas_used])
    /\ get_performance_report.total_fees_paid
          = SumOver(DOMAIN metrics, [n \in DOMAIN metrics |-> metrics[n].total_fees_paid])

----------------------------------------------------------------------------
(* Properties of the registry and of the lifecycle of a job *)

\* C15: a job once added is never removed: no step of deploy_job, cancel_job, a
\* polling cycle, metrics collection or cleanup takes a name out of the registry,
\* and get_job_status goes on reporting every such name with its metrics, also
\* when the job has been cancelled.
C15_JobNeverRemoved ==
    [][LET status == get_job_status'
       IN  \A n \in DOMAIN jobs :
              /\ n \in DOMAIN jobs'
              /\ n \in DOMAIN status.jobs
              /\ status.jobs[n].active = jobs'[n].active
              /\ status.jobs[n].metrics = metrics'[n]]_vars

\* a cancelled job whose execution was counted is still reported, next to an
\* active one
C15_Witness ==
    \E n, k \in DOMAIN get_job_status.jobs :
        /\ ~get_job_status.jobs[n].active
        /\ get_job_status.jobs[n].metrics.total_executions = 1
        /\ get_job_status.jobs[k].active
        /\ get_job_status.total_jobs = 2
        /\ get_job_status.active_jobs = 1

\* the step is one of add_job
IsAddJob == \E job \in RegistryInputs : add_job(job)

\* every job that has an assignment keeps it in this step
AssignmentsKept ==
    \A n \in DOMAIN job_assignments :
        n \in DOMAIN job_assignments' /\ job_assignments'[n] = job_assignments[n]

\* C16: the provider assignment of a job is set once, when the job is added, and
\* no later step changes it: the job has one and the same provider for its whole
\* life.
C16_AssignmentSetOnce == [][AssignmentsKept]_vars

\* the part of C16 about the handlers other than add_job
C16_KeptByOtherHandlers == [][IsAddJob \/ AssignmentsKept]_vars

----------------------------------------------------------------------------
(* Properties of the monitoring loops *)

Loops == DOMAIN monitoring_tasks \ {"monitor_all_jobs"}

\* C17: a failure of a poll is never propagated to the caller of
\* monitor_all_jobs and never ends a loop: no loop is ever left by an exception,
\* monitor_all_jobs does not return because of one, the loop whose poll failed
\* starts a new cycle when the sleep of its except branch is over, and the other
\* loops stay in their cycles.
C17_PollFailureStaysInLoop ==
    /\ \A t \in Loops : monitoring_tasks[t] # "exited"
    /\ monitor_all_jobs_outcome \in {"not called", "pending", "CancelledError"}
    /\ \A t \in Loops : monitoring_tasks[t] = "except" => ENABLED sleep_over(t)

\* the relay adapter's poll failed while the keeper's loop, which has executed
\* the job, and the metrics collection are in their cycles
C17_Witness ==
    /\ DOMAIN monitoring_tasks
          = {"monitor_all_jobs", "monitor_jobs", "monitor_tasks", "collect_metrics"}
    /\ monitoring_tasks["monitor_tasks"] = "except"
    /\ monitoring_tasks["monitor_jobs"] = "running"
    /\ monitoring_tasks["collect_metrics"] = "running"
    /\ monitor_all_jobs_outcome = "pending"
    /\ \E n \in DOMAIN keeper_jobs : keeper_jobs[n].last_execution # None

\* the step is a poll of a loop, or the start of a new cycle
IsPollStep ==
    \/ \E n \in Names, c \in TriggerOutcomes, ok \in BOOLEAN : monitor_jobs(n, c, ok)
    \/ \E n \in Names, ok \in BOOLEAN : monitor_tasks(n, ok)
    \/ collect_metrics
    \/ \E t \in Loops : sleep_over(t)

\* C19: once monitor_all_jobs is cancelled, every loop it started is cancelled
\* with it and no loop polls or starts a new cycle any more.
C19_NoCycleAfterCancel ==
    [][monitor_all_jobs_outcome = "CancelledError"
         => /\ \A t \in Loops : monitoring_tasks[t] = "cancelled"
            /\ ~IsPollStep]_vars

\* monitoring was cancelled after the relay loop had polled an execution, and an
\* execution the relay performed since is left unpolled
C19_Witness ==
    /\ monitor_all_jobs_outcome = "CancelledError"
    /\ "monitor_tasks" \in Loops
    /\ gelato_executions # <<>>
    /\ \E n \in DOMAIN relay_history :
          Len(relay_history[n]) > Len(task_executions(n))

----------------------------------------------------------------------------
(* Properties of cleanup *)

\* C18: however the cancellations end, cleanup calls cancel_job for every job
\* that is still active, also after a cancellation that raised; when it returns
\* every job is inactive or the failure of its cancellation was logged; and
\* cleanup itself returns normally.
C18_CleanupCancelsEveryActiveJob ==
    \A tx \in [RegistryNames -> TxOutcomes] :
        /\ \A n \in DOMAIN jobs : jobs[n].active => n \in cleanup_attempted(tx)
        /\ \A n \in DOMAIN jobs :
              ~cleanup_jobs(tx)[n].active \/ n \in cleanup_logged(tx)
        /\ cleanup_outcome(tx) = "ok"

\* after a cleanup one job is inactive, the other is still active because the
\* transaction cancelling its relay task failed
C18_Witness ==
    \E n, k \in DOMAIN jobs :
        /\ ~jobs[n].active
        /\ jobs[k].active
        /\ job_assignments[k] = GELATO
        /\ k \in DOMAIN gelato_tasks
        /\ gelato_tasks[k].active
        /\ gelato_tasks[k].task_id # None

----------------------------------------------------------------------------
(* Properties of the lifecycle of a job *)

\* C20: the lifecycle of a job only moves forward: a job that cancel_job has
\* made inactive is not deployed to an adapter again, so it is never an active
\* member of its adapter's polling set (stated here for the step the claim names,
\* deploy_job after a successful cancel_job).
C20_CancelledJobNotRedeployed ==
    \A n \in DOMAIN jobs :
        ~jobs[n].active
        => ~InPollingSet(n, job_assignments[n], keeper_jobs, gelato_tasks)

----------------------------------------------------------------------------
(* Properties of the construction *)

\* C21: constructing the orchestrator fails when no adapter ends up
\* initialised, so an orchestrator in use always has at least one adapter.
C21_ZeroAdaptersIsFatal ==
    /\ chainlink_manager \/ gelato_manager
    /\ \A config \in Configs :
          ~initialize_provider(config.chainlink) /\ ~initialize_provider(config.gelato)
          => init_outcome(config) # "ok"

----------------------------------------------------------------------------
(* Properties of the keeper adapter's register_upkeep *)

\* the position of the event in the events of a call, 0 if it is not among them
EventIndex(events, event) ==
    IF \E i \in 1..Len(events) : events[i] = event
    THEN CHOOSE i \in 1..Len(events) : events[i] = event
    ELSE 0

\* C22: with a balance below the required funding register_upkeep fails with
\* the insufficient-balance error and has submitted no transaction; otherwise
\* the registration transaction is submitted only after the approval was
\* submitted and confirmed; and a statement that raises makes register_upkeep
\* raise, so that deploy_job raises too and the job is not added to the adapter.
C22_RegisterChecksApprovesRegisters ==
    \A balance \in LinkBalances, fail_at \in RegisterFailures :
        LET r == register_upkeep(balance, fail_at)
            approved == EventIndex(r.events, "approve confirmed")
            submitted == EventIndex(r.events, "registerUpkeep submitted")
        IN  /\ balance < funding_amount /\ fail_at # "balanceOf"
               => /\ r.outcome = "ValueError: Insufficient LINK balance"
                  /\ r.events = <<>>
            /\ submitted # 0
               => /\ EventIndex(r.events, "approve submitted") # 0
                  /\ EventIndex(r.events, "approve submitted") < approved
                  /\ approved < submitted
            /\ r.outcome = "ok"
               <=> balance >= funding_amount /\ fail_at = "none"
            /\ r.outcome = "ok"
               => EventIndex(r.events, "registerUpkeep confirmed") = Len(r.events)
            /\ \A n \in DOMAIN jobs :
                  job_assignments[n] = CHAINLINK /\ r.outcome # "ok"
                  => /\ deploy_job_outcome(n, r.outcome) # "ok"
                     /\ deployed_keeper_jobs(n, r.outcome) = keeper_jobs

\* a job is in the keeper adapter after a register_upkeep that approved and then
\* registered, and a register_upkeep with too small a balance would now fail
C22_Witness ==
    /\ \E n \in DOMAIN keeper_jobs :
          /\ n \in DOMAIN jobs
          /\ job_assignments[n] = CHAINLINK
          /\ jobs[n].created_at = TickSeconds
    /\ register_upkeep(funding_amount, "none").events
          = <<"approve submitted", "approve confirmed",
              "registerUpkeep submitted", "registerUpkeep confirmed">>
    /\ register_upkeep(funding_amount - 1, "none").events = <<>>

----------------------------------------------------------------------------
(* The end-to-end scenario *)

\* the keeper adapter holds "harvest" with one execution that no metrics
\* collection has seen yet
OneNewKeeperExecution ==
    /\ "harvest" \in DOMAIN keeper_jobs
    /\ keeper_jobs["harvest"].last_execution # None
    /\ metrics["harvest"].total_executions = 0
    /\ metrics["harvest"].last_execution_time = None

\* C23: with both adapters, add_job of "harvest" (gas 300000, frequency 3600,
\* priority 3, provider auto) resolves the keeper, whose score is 110 against
\* 100; deploy_job("harvest") then succeeds when the adapter's registration
\* does; and the metrics collection that follows one new successful execution
\* makes get_job_status report total_executions = 1 and
\* successful_executions = 1 for "harvest".
C23_HarvestEndToEnd ==
    [][BothAdapters
       => /\ add_job(HarvestJob)
             => /\ chainlink_score(HarvestJob) = 110000
                /\ gelato_score(HarvestJob) = 100000
                /\ job_assignments'["harvest"] = CHAINLINK
                /\ jobs'["harvest"].provider = CHAINLINK
          /\ "harvest" \in DOMAIN jobs
             => /\ job_assignments["harvest"] = CHAINLINK
                /\ deploy_job_outcome("harvest", "ok") = "ok"
                /\ InPollingSet("harvest", CHAINLINK,
                                deployed_keeper_jobs("harvest", "ok"), gelato_tasks)
          /\ collect_metrics /\ "harvest" \in DOMAIN jobs /\ OneNewKeeperExecution
             => LET reported == get_job_status'.jobs["harvest"].metrics
                IN  /\ reported.total_executions = 1
                    /\ reported.successful_executions = 1
                    /\ reported.failed_executions = 0]_vars

\* "harvest" is deployed to the keeper, was executed once, and is reported with
\* one execution, a successful one
C23_Witness ==
    /\ BothAdapters
    /\ "harvest" \in DOMAIN jobs
    /\ jobs["harvest"].created_at # None
    /\ "harvest" \in DOMAIN keeper_jobs
    /\ keeper_jobs["harvest"].last_execution # None
    /\ get_job_status.jobs["harvest"].provider = CHAINLINK
    /\ get_job_status.jobs["harvest"].metrics.total_executions = 1
    /\ get_job_status.jobs["harvest"].metrics.successful_executions = 1

----------------------------------------------------------------------------
(* Properties of the status and the report *)

\* the fraction is the quotient successful / total, or 0 when total is 0
IsRateOf(rate, successful, total) ==
    IF total = 0 THEN rate[1] = 0 /\ rate[2] # 0
    ELSE rate[2] # 0 /\ rate[1] * total = successful * rate[2]

\* C24: in every state, also the one right after a metrics update,
\* get_job_status and get_performance_report give what the registry, the
\* assignments and the metrics hold at that moment: each job with its current
\* metrics, the success rate successful / total (0 when total is 0), the sums
\* of the current counters, and per-provider job counts that add up to the
\* number of registered jobs.
C24_QueriesReflectCurrentState ==
    /\ get_job_status.total_jobs = Cardinality(DOMAIN jobs)
    /\ DOMAIN get_job_status.jobs = DOMAIN jobs
    /\ \A n \in DOMAIN jobs :
          LET reported == get_job_status.jobs[n]
          IN  /\ reported.metrics = metrics[n]
              /\ reported.active = jobs[n].active
              /\ reported.provider = job_assignments[n]
              /\ IsRateOf(reported.success_rate, metrics[n].successful_executions,
                          metrics[n].total_executions)
    /\ \A n \in DOMAIN metrics :
          /\ get_performance_report.job_metrics[n].executions
                = metrics[n].total_executions
          /\ IsRateOf(get_performance_report.job_metrics[n].success_rate,
                      metrics[n].successful_executions, metrics[n].total_executions)
    /\ get_performance_report.total_executions
          = SumOver(DOMAIN metrics, [n \in DOMAIN metrics |-> metrics[n].total_executions])
    /\ IsRateOf(get_performance_report.overall_success_rate,
                get_performance_report.total_successful,
                get_performance_report.total_executions)
    /\ get_performance_report.job_count[CHAINLINK]
          + get_performance_report.job_count[GELATO] = Cardinality(DOMAIN jobs)

\* after a collection the report shows a relay job whose one execution failed
\* (rate 0 of 1) next to a keeper job with one execution, and one success in
\* two executions overall
C24_Witness ==
    \E n, k \in DOMAIN jobs :
        /\ job_assignments[n] = GELATO
        /\ job_assignments[k] = CHAINLINK
        /\ metrics[n].total_executions = 1
        /\ get_job_status.jobs[n].success_rate = <<0, 1>>
        /\ get_job_status.jobs[k].success_rate = <<1, 1>>
        /\ get_performance_report.overall_success_rate = <<1, 2>>
        /\ get_performance_report.job_count[CHAINLINK] = 1
        /\ get_performance_report.job_count[GELATO] = 1

----------------------------------------------------------------------------
(* Properties of the relay adapter's status processing *)

\* the relay tasks a status poll can be made for, each with the history its
\* status endpoint returns now
Polled == {n \in DOMAIN gelato_tasks : gelato_tasks[n].task_id # None}

HistoryOf(n) == relay_history[gelato_tasks[n].task_id]

\* the executions a poll of the task n would append now
Appended(n) ==
    LET r == process_task_status(gelato_tasks[n], gelato_executions, HistoryOf(n))
    IN  SubSeq(r.executions, Len(gelato_executions) + 1, Len(r.executions))

\* C25: a status poll records an execution only for history entries later than
\* the last one the task has seen, each once; and a second poll of the same
\* history appends nothing: the task and the executions are as after the first.
C25_PollOfSeenHistoryAddsNothing ==
    \A n \in Polled :
        LET first == process_task_status(gelato_tasks[n], gelato_executions,
                                         HistoryOf(n))
            second == process_task_status(first.task, first.executions, HistoryOf(n))
        IN  /\ second = first
            /\ \A i \in 1..Len(Appended(n)) :
                  /\ gelato_tasks[n].last_execution # None
                        => Appended(n)[i].execution_time > gelato_tasks[n].last_execution
                  /\ \E j \in 1..Len(HistoryOf(n)) :
                        Appended(n)[i] = TaskExecution(gelato_tasks[n].task_id,
                                                       HistoryOf(n)[j])
                  /\ \A k \in 1..(i - 1) :
                        Appended(n)[k].execution_time < Appended(n)[i].execution_time

\* a history of two entries was polled into two executions, and is still what
\* the endpoint returns
C25_Witness ==
    \E n \in Polled :
        /\ Len(HistoryOf(n)) = 2
        /\ Len(task_executions(gelato_tasks[n].task_id)) = 2
        /\ gelato_tasks[n].last_execution = HistoryOf(n)[2].timestamp
        /\ Appended(n) = <<>>

\* the entries of the history later than the last execution the task has seen
NewEntries(n) ==
    SelectSeq(HistoryOf(n),
              LAMBDA e : gelato_tasks[n].last_execution = None
                         \/ e.timestamp > gelato_tasks[n].last_execution)

DistinctTimes(history) ==
    \A i, j \in 1..Len(history) : i # j => history[i].timestamp # history[j].timestamp

\* C26: also for a history that is not in order of occurrence (its entries at
\* different times), a poll records every entry later than the task's last seen
\* time, and records them in non-decreasing order of time.
C26_UnorderedHistoryRecordedSorted ==
    \A n \in Polled :
        DistinctTimes(HistoryOf(n))
        => /\ Len(Appended(n)) = Len(NewEntries(n))
           /\ \A i \in 1..Len(NewEntries(n)) :
                 \E k \in 1..Len(Appended(n)) :
                    Appended(n)[k] = TaskExecution(gelato_tasks[n].task_id,
                                                   NewEntries(n)[i])
           /\ \A i, k \in 1..Len(Appended(n)) :
                 i < k => Appended(n)[i].execution_time <= Appended(n)[k].execution_time

----------------------------------------------------------------------------
(* Properties of the keeper adapter's loop *)

\* at least `frequency` seconds have passed since the job's last recorded
\* execution, or it has none
FrequencyElapsed(kjob) ==
    kjob.last_execution = None \/ now - kjob.last_execution >= kjob.frequency

\* C27: an iteration of the keeper's loop sends a performUpkeep transaction
\* for a job only when the job is active, its frequency has elapsed since its
\* last recorded execution and the trigger check answered should-run; a check
\* that raises sends nothing and leaves the job as it was; and an execution is
\* recorded only for such a transaction that was confirmed.
C27_ExecutesOnlyWhenDue ==
    [][\A n \in Names, c \in TriggerOutcomes, ok \in BOOLEAN :
          monitor_jobs_recorded(n, c, ok)
          => /\ should_execute_job(keeper_jobs[n], c)
                => /\ keeper_jobs[n].active
                   /\ FrequencyElapsed(keeper_jobs[n])
                   /\ c = "needed"
             /\ c = "raises" => ~should_execute_job(keeper_jobs[n], c)
             /\ ~should_execute_job(keeper_jobs[n], c)
                => keeper_jobs' = keeper_jobs /\ performed_upkeeps' = performed_upkeeps
             /\ keeper_jobs'[n].last_execution # keeper_jobs[n].last_execution
                => /\ FrequencyElapsed(keeper_jobs[n])
                   /\ c = "needed"
                   /\ ok
                   /\ keeper_jobs'[n].last_execution = now
                   /\ now \in performed_upkeeps'[n]]_vars

\* a half-hourly job was executed at time 0 and again one tick later
C27_Witness ==
    \E n \in DOMAIN keeper_jobs :
        /\ keeper_jobs[n].frequency = 1800
        /\ keeper_jobs[n].last_execution = TickSeconds
        /\ upkeeps_of(n) = {0, TickSeconds}

----------------------------------------------------------------------------
(* Properties of a failing add_job *)

\* C28: an add_job that raises leaves the registry, the assignments and the
\* metrics exactly as they were: no metrics entry for the rejected name, no
\* reset of the metrics of a job of that name.
C28_FailedAddChangesNothing ==
    [][\A job \in JobInputs :
          add_job(job) /\ add_job_outcome(job) # "ok"
          => /\ jobs' = jobs
             /\ job_assignments' = job_assignments
             /\ metrics' = metrics]_vars

----------------------------------------------------------------------------
(* Properties of the relay adapter's loop *)

\* the relay has executed the active task of n and the adapter has not recorded
\* all of its executions yet: the task is waiting for a poll
AwaitsPoll(n) ==
    /\ gelato_manager
    /\ n \in Polled
    /\ gelato_tasks[n].active
    /\ Len(HistoryOf(n)) > Len(task_executions(gelato_tasks[n].task_id))

\* C29: a task whose own status request never fails is eventually polled: the
\* executions the relay has performed for it are eventually recorded, even when
\* the status request of another task fails in every cycle.
C29_FailingPollDoesNotStarve ==
    \A n \in RegistryNames \ FailingTasks : AwaitsPoll(n) ~> ~AwaitsPoll(n)

----------------------------------------------------------------------------
(* Properties of the adapters' polling sets *)

\* the job n is in the polling set of an adapter: the keeper's loop would check
\* it, or the relay's loop would request the status of its task
InAPollingSet(n, kjobs, tasks) ==
    \/ chainlink_manager /\ n \in DOMAIN kjobs /\ kjobs[n].active
    \/ gelato_manager /\ n \in DOMAIN tasks
                      /\ tasks[n].active /\ tasks[n].task_id # None

\* what the adapters have recorded of the executions of n: the keeper job's last
\* execution, and the executions recorded for the relay task
AdapterRecord(n, kjobs, tasks, executions) ==
    [keeper |-> IF n \in DOMAIN kjobs THEN kjobs[n].last_execution ELSE None,
     relay  |-> IF n \in DOMAIN tasks
                THEN executions_of(executions, tasks[n].task_id) ELSE <<>>]

\* a step of an adapter's poll loop
IsAdapterPoll ==
    \/ \E n \in Names, c \in TriggerOutcomes, ok \in BOOLEAN : monitor_jobs(n, c, ok)
    \/ \E n \in Names : monitor_tasks(n, TRUE)

\* the first part of C30: a job enters a polling set only by a deploy_job that
\* succeeds
C30_OnlyDeployEntersPollingSet ==
    [][\A n \in Names :
          ~InAPollingSet(n, keeper_jobs, gelato_tasks)
          /\ InAPollingSet(n, keeper_jobs', gelato_tasks')
          => \E o \in RegisterOutcomes \cup TxOutcomes :
                deploy_job(n, o) /\ deploy_job_outcome(n, o) = "ok"]_vars

\* the poll loops execute and record only members of the polling sets: for a job
\* outside them a poll step leaves the adapters' record of its executions alone
C30_PollsOnlyMembers ==
    [][\A n \in Names :
          IsAdapterPoll /\ ~InAPollingSet(n, keeper_jobs, gelato_tasks)
          => AdapterRecord(n, keeper_jobs', gelato_tasks', gelato_executions')
             = AdapterRecord(n, keeper_jobs, gelato_tasks, gelato_executions)]_vars

\* C30: a job is executed or polled by its adapter only while it is deployed and
\* active: once cancel_job has succeeded the job is in no adapter's polling set,
\* so that no later poll cycle executes it or records an execution for it.
C30_NotPolledAfterCancel ==
    [][\A n \in Names, tx \in TxOutcomes :
          cancel_job(n, tx) /\ cancel_job_outcome(n, tx) = "ok"
          => ~InAPollingSet(n, keeper_jobs', gelato_tasks')]_vars

====
